---- MODULE Spec2Model ----
(***************************************************************************)
(* Model of cli-base-string-converter: the generic base codec              *)
(* (numberToBase / baseToNumber of the universal base converter) and the   *)
(* prompt/response shell of the universal converter that calls it.         *)
(*                                                                         *)
(* A JavaScript string is modelled as a sequence of one-character strings, *)
(* so that indexing, concatenation, split and repeat are computed as the   *)
(* code computes them.  Numbers are modelled as integers; the values the   *)
(* claims are about are far inside the exact-integer range of a double.    *)
(***************************************************************************)
EXTENDS Integers, Sequences, FiniteSets, TLC

VARIABLES
    phase,      \* codec harness: which call has been made
    argNum,     \* codec harness: the num argument of numberToBase
    argBase,    \* codec harness: the base argument of either function
    argStr,     \* codec harness: the str argument of baseToNumber
    encoded,    \* codec harness: outcome of the numberToBase call
    decoded,    \* codec harness: outcome of the baseToNumber call
    pc,         \* shell: the prompt that is pending
    answered,   \* shell: the prompt whose answer handler ran last
    selectedBase, \* shell: universalBaseConverter's closure variable
    inputData,  \* shell: the line answered to the last input prompt
    console,    \* shell: what the last handler wrote to the console
    history,    \* shell: the entries of the history store
    converter,  \* shell: the converter module that is running
    pending,    \* shell: the number of prompts waiting for an answer
    chosenBase, \* shell: the base answered at main's 'Choose the base' prompt,
                \* kept until the converter's first prompt is answered
    deleteCall  \* shell: the deleteHistoryEntry call of the last handler

codecVars == <<phase, argNum, argBase, argStr, encoded, decoded>>
shellVars == <<pc, answered, selectedBase, inputData, console, history, converter, pending,
               chosenBase, deleteCall>>
vars == <<phase, argNum, argBase, argStr, encoded, decoded,
          pc, answered, selectedBase, inputData, console, history, converter,
          pending, chosenBase, deleteCall>>

----------------------------------------------------------------------------
(* Bounds of the model *)

MaxValue == 256     \* numberToBase is called with num up to this value
MaxNeg == 2         \* ... and down to -MaxNeg
MaxBase == 66       \* the codec harness calls with base in 0..MaxBase
MaxLen == 4         \* baseToNumber is called with strings up to this length
MaxLineLen == 3     \* length of a line typed at an input prompt
MaxHistory == 2     \* entries in the history store when the program starts
MaxTokenLen == 2    \* length of a short line typed at a per-base prompt

----------------------------------------------------------------------------
(* The alphabet *)

\* mutant: lower-case letters placed before upper-case letters
BASE_CHARACTERS_LowerFirst ==
    << "0", "1", "2", "3", "4", "5", "6", "7", "8", "9",
       "a", "b", "c", "d", "e", "f", "g", "h", "i", "j", "k", "l", "m",
       "n", "o", "p", "q", "r", "s", "t", "u", "v", "w", "x", "y", "z",
       "A", "B", "C", "D", "E", "F", "G", "H", "I", "J", "K", "L", "M",
       "N", "O", "P", "Q", "R", "S", "T", "U", "V", "W", "X", "Y", "Z",
       "+", "/" >>

BASE_CHARACTERS ==
    << "0", "1", "2", "3", "4", "5", "6", "7", "8", "9",
       "A", "B", "C", "D", "E", "F", "G", "H", "I", "J", "K", "L", "M",
       "N", "O", "P", "Q", "R", "S", "T", "U", "V", "W", "X", "Y", "Z",
       "a", "b", "c", "d", "e", "f", "g", "h", "i", "j", "k", "l", "m",
       "n", "o", "p", "q", "r", "s", "t", "u", "v", "w", "x", "y", "z",
       "+", "/" >>

\* String(undefined), what string concatenation makes of an out-of-range index
Undefined == << "u", "n", "d", "e", "f", "i", "n", "e", "d" >>

\* mutant: the alphabet indexed one position too far
CharAtOffByOne(i) ==
    IF i + 1 \in 0..(Len(BASE_CHARACTERS) - 1)
    THEN << BASE_CHARACTERS[i + 2] >>
    ELSE << "u", "n", "d", "e", "f", "i", "n", "e", "d" >>

\* mutant: a digit above 9 written as two decimal digits
CharAtDecimal(i) ==
    IF i \in 0..9 THEN << BASE_CHARACTERS[i + 1] >>
    ELSE << BASE_CHARACTERS[(i \div 10) + 1], BASE_CHARACTERS[(i % 10) + 1] >>

\* BASE_CHARACTERS[i] + result: i is a 0-based index; "NaN" stands for num % 0
CharAt(i) ==
    IF i \in 0..(Len(BASE_CHARACTERS) - 1)
    THEN << BASE_CHARACTERS[i + 1] >>
    ELSE Undefined

\* mutant: the digit value taken as the 1-based position in the alphabet
indexOfOneBased(char) ==
    LET hits == { i \in 1..Len(BASE_CHARACTERS) : BASE_CHARACTERS[i] = char }
    IN  IF hits = {} THEN 0
        ELSE CHOOSE i \in hits : \A j \in hits : i <= j

\* BASE_CHARACTERS.indexOf(char): 0-based index of the first occurrence, or -1
indexOf(char) ==
    LET hits == { i \in 1..Len(BASE_CHARACTERS) : BASE_CHARACTERS[i] = char }
    IN  IF hits = {} THEN -1
        ELSE (CHOOSE i \in hits : \A j \in hits : i <= j) - 1

\* '1'.repeat(num) for num >= 0
Repeat(char, num) == [ i \in 1..num |-> char ]

----------------------------------------------------------------------------
(* The codec *)

Return(s) == [ kind |-> "return", str |-> s, error |-> "" ]
Throw(e)  == [ kind |-> "throw", str |-> << >>, error |-> e ]
NoCall    == [ kind |-> "none", str |-> << >>, error |-> "" ]

\* mutant: the next digit appended to the result instead of prepended
RECURSIVE numberToBaseLoopAppend(_, _, _)
numberToBaseLoopAppend(num, base, result) ==
    IF num > 0
    THEN numberToBaseLoopAppend(num \div base, base, result \o CharAt(num % base))
    ELSE result

\* the while loop of numberToBase, for base >= 1
RECURSIVE numberToBaseLoop(_, _, _)
numberToBaseLoop(num, base, result) ==
    IF num > 0
    THEN numberToBaseLoop(num \div base, base, CharAt(num % base) \o result)
    ELSE result

Diverge == [ kind |-> "diverge", str |-> << >>, error |-> "" ]

\* mutant: the result returned without the `|| '0'` fallback
numberToBaseNoZero(num, base) ==
    IF base = 1
    THEN IF num < 0 THEN Throw("RangeError") ELSE Return(Repeat("1", num))
    ELSE IF base = 0 /\ num > 0 THEN Diverge
    ELSE Return(numberToBaseLoop(num, base, << >>))

\* mutant: unary written with the alphabet's zero symbol
numberToBaseUnaryZero(num, base) ==
    IF base = 1
    THEN IF num < 0 THEN Throw("RangeError") ELSE Return(Repeat("0", num))
    ELSE IF base = 0 /\ num > 0 THEN Diverge
    ELSE LET result == numberToBaseLoop(num, base, << >>)
         IN  Return(IF result = << >> THEN << "0" >> ELSE result)

\* mutant: the `|| '0'` fallback applied to the unary branch as well
numberToBaseZeroFallback(num, base) ==
    IF base = 0 /\ num > 0 THEN Diverge
    ELSE IF base = 1 /\ num < 0 THEN Throw("RangeError")
    ELSE LET result == IF base = 1 THEN Repeat("1", num)
                       ELSE numberToBaseLoop(num, base, << >>)
         IN  Return(IF result = << >> THEN << "0" >> ELSE result)

\* numberToBase(num, base), base >= 0.  String.prototype.repeat throws a
\* RangeError on a negative count.  With base = 0 and num > 0 the loop never
\* ends by its condition (num % 0 is NaN, Math.floor(num / 0) is Infinity):
\* the outcome "diverge" is resolved by Outcomes.
numberToBase(num, base) ==
    IF base = 1
    THEN IF num < 0 THEN Throw("RangeError") ELSE Return(Repeat("1", num))
    ELSE IF base = 0 /\ num > 0
    THEN Diverge
    ELSE LET result == numberToBaseLoop(num, base, << >>)
         IN  Return(IF result = << >> THEN << "0" >> ELSE result)

\* What a caller can observe of a call: the endless loop grows `result` by
\* "undefined" per iteration until the engine refuses the string length
\* (RangeError) or the process runs out of memory (abort).
Outcomes(r) ==
    IF r.kind = "diverge"
    THEN { Throw("RangeError"), [ kind |-> "abort", str |-> << >>, error |-> "" ] }
    ELSE { r }

\* Numbers beyond the 32-bit range are not computed exactly: Huge stands for
\* "some number >= Huge" and -Huge for "some number <= -Huge".
Huge == 2147483647

\* acc * base + digit, for a digit in -1..63
MulAdd(acc, base, digit) ==
    IF base = 0 THEN digit
    ELSE IF acc > (Huge - 64) \div base THEN Huge
    ELSE IF acc < -((Huge - 64) \div base) THEN -Huge
    ELSE acc * base + digit

\* the reduce of baseToNumber
RECURSIVE reduce(_, _, _)
reduce(str, base, acc) ==
    IF str = << >> THEN acc
    ELSE reduce(Tail(str), base, MulAdd(acc, base, indexOf(Head(str))))

Reverse(str) == [ i \in 1..Len(str) |-> str[Len(str) + 1 - i] ]

\* mutant: the reduce started from 1 instead of 0
baseToNumberInitOne(str, base) ==
    IF base = 1 THEN Len(str) ELSE reduce(str, base, 1)

\* mutant: reduceRight, the digits folded from the last character
baseToNumberRight(str, base) ==
    IF base = 1 THEN Len(str) ELSE reduce(Reverse(str), base, 0)

\* baseToNumber(str, base)
baseToNumber(str, base) ==
    IF base = 1 THEN Len(str) ELSE reduce(str, base, 0)

----------------------------------------------------------------------------
(* Codec harness: the two functions applied to bounded arguments *)

\* the characters the harness builds digit strings from: valid binary and
\* hexadecimal digits, "G" (index 16), "/" (index 63), "-" (not in the alphabet)
DigitChars == { "0", "1", "F", "G", "/", "-" }

RECURSIVE SeqsUpTo(_, _)
SeqsUpTo(S, n) ==
    IF n = 0 THEN { << >> }
    ELSE LET shorter == SeqsUpTo(S, n - 1)
         IN  shorter \cup { Append(s, c) : s \in { t \in shorter : Len(t) = n - 1 }, c \in S }

NoNumber == [ kind |-> "none", num |-> 0, error |-> "" ]
ReturnNumber(n) == [ kind |-> "return", num |-> n, error |-> "" ]

ShellIdle ==
    /\ pc = "off"
    /\ answered = "none"
    /\ selectedBase = 0
    /\ inputData = << >>
    /\ console = [ stream |-> "none", label |-> "", text |-> << >> ]
    /\ history = << >>
    /\ converter = "none"
    /\ pending = 0
    /\ chosenBase = 0
    /\ deleteCall = [ called |-> FALSE, index |-> 0 ]

CodecInit ==
    /\ phase \in { "encode", "decode" }
    /\ argBase \in 0..MaxBase
    /\ encoded = NoCall
    /\ decoded = NoNumber
    /\ IF phase = "encode"
       THEN argNum \in (-MaxNeg)..MaxValue /\ argStr = << >>
       ELSE argNum = 0 /\ argStr \in SeqsUpTo(DigitChars, MaxLen)
    /\ ShellIdle

\* a call numberToBase(argNum, argBase)
CallNumberToBase ==
    /\ phase = "encode"
    /\ encoded' \in Outcomes(numberToBase(argNum, argBase))
    /\ phase' = "encoded"
    /\ UNCHANGED <<argNum, argBase, argStr, decoded, shellVars>>

\* a call baseToNumber(argStr, argBase)
CallBaseToNumber ==
    /\ phase = "decode"
    /\ decoded' = ReturnNumber(baseToNumber(argStr, argBase))
    /\ phase' = "decoded"
    /\ UNCHANGED <<argNum, argBase, argStr, encoded, shellVars>>

\* a call baseToNumber(s, argBase) on the string s numberToBase returned
CallBaseToNumberOfEncoded ==
    /\ phase = "encoded"
    /\ encoded.kind = "return"
    /\ decoded' = ReturnNumber(baseToNumber(encoded.str, argBase))
    /\ phase' = "roundtrip"
    /\ UNCHANGED <<argNum, argBase, argStr, encoded, shellVars>>

Next ==
    \/ CallNumberToBase
    \/ CallBaseToNumber
    \/ CallBaseToNumberOfEncoded

Spec == CodecInit /\ [][Next]_vars

----------------------------------------------------------------------------
(* String helpers of the shell *)

\* the characters typed at an input prompt: decimal digits, a letter, a sign
\* and the separator
InputChars == { "0", "1", "7", "a", "-", " " }

IsSpace(c) == c = " "

\* str.trim()
RECURSIVE trimStart(_)
trimStart(str) ==
    IF str # << >> /\ IsSpace(Head(str)) THEN trimStart(Tail(str)) ELSE str

trim(str) == Reverse(trimStart(Reverse(trimStart(str))))

\* str.split(' '): the pieces between separators, empty pieces included;
\* the empty string splits into one empty piece
RECURSIVE splitFrom(_, _, _)
splitFrom(str, piece, pieces) ==
    IF str = << >> THEN Append(pieces, piece)
    ELSE IF Head(str) = " " THEN splitFrom(Tail(str), << >>, Append(pieces, piece))
    ELSE splitFrom(Tail(str), Append(piece, Head(str)), pieces)

split(str) == splitFrom(str, << >>, << >>)

\* strs.join(sep)
RECURSIVE join(_, _)
join(strs, sep) ==
    IF strs = << >> THEN << >>
    ELSE IF Len(strs) = 1 THEN strs[1]
    ELSE strs[1] \o sep \o join(Tail(strs), sep)

DecimalDigits == << "0", "1", "2", "3", "4", "5", "6", "7", "8", "9" >>

IsDecimalDigit(c) == \E i \in 1..Len(DecimalDigits) : DecimalDigits[i] = c

DecimalValue(c) == (CHOOSE i \in 1..Len(DecimalDigits) : DecimalDigits[i] = c) - 1

\* the longest prefix of decimal digits, as a number; count = digits consumed
RECURSIVE parseDigits(_, _, _)
parseDigits(str, value, count) ==
    IF str # << >> /\ IsDecimalDigit(Head(str))
    THEN parseDigits(Tail(str), 10 * value + DecimalValue(Head(str)), count + 1)
    ELSE [ value |-> value, count |-> count ]

\* parseInt(str, 10): leading white space skipped, an optional sign, then the
\* longest run of decimal digits; NaN when there is no digit
parseInt(str) ==
    LET s0 == trimStart(str)
        signed == s0 # << >> /\ Head(s0) \in { "-", "+" }
        digits == parseDigits(IF signed THEN Tail(s0) ELSE s0, 0, 0)
    IN  IF digits.count = 0 THEN [ nan |-> TRUE, value |-> 0 ]
        ELSE [ nan |-> FALSE,
               value |-> IF signed /\ Head(s0) = "-" THEN -digits.value
                         ELSE digits.value ]

----------------------------------------------------------------------------
(* The shell: main menu and the universal base converter *)

Null == 0   \* selectedBase before a base was selected

Silent == [ stream |-> "none", label |-> "", text |-> << >> ]
Log(label, text) == [ stream |-> "log", label |-> label, text |-> text ]
Error(label, text) == [ stream |-> "error", label |-> label, text |-> text ]

\* the choices 'Base 1' .. 'Base 64', as the number each one parses to
baseChoices == 1..64

\* the deleteHistoryEntry call a handler made, if it made one
NoDelete == [ called |-> FALSE, index |-> 0 ]
DeleteCalled(index) == [ called |-> TRUE, index |-> index ]

Lines == SeqsUpTo(InputChars, MaxLineLen)

\* the lines typed at convertToString's prompt: the short lines and one long
\* binary token, 1114112 + 65 written in base 2
ValueLines == Lines \cup { numberToBase(1114112 + 65, 2).str }

\* the callback of numbers.map in convertToBase, applied to one token
convertNumber(num, base) ==
    LET parsed == parseInt(num)
    IN  IF parsed.nan THEN Throw("Invalid number")
        ELSE numberToBase(parsed.value, base)

\* the try block of convertToBase: the first token that throws ends the map
\* and its message goes to console.error; otherwise the joined tokens are logged
convertToBaseOutput(line, base) ==
    LET numbers == split(trim(line))
        results == [ i \in 1..Len(numbers) |-> convertNumber(numbers[i], base) ]
        thrown == { i \in 1..Len(numbers) : results[i].kind # "return" }
    IN  IF thrown = {}
        THEN Log("Converted to Base",
                 join([ i \in 1..Len(numbers) |-> results[i].str ], << " " >>))
        ELSE LET first == CHOOSE i \in thrown : \A j \in thrown : i <= j
             IN  Error(results[first].error, numbers[first])

\* String.fromCharCode(number): the code unit number modulo 2^16
fromCharCode(number) == number % 65536

\* the try block of convertToString: each token decoded as base 2
convertToStringOutput(line) ==
    LET values == split(trim(line))
    IN  Log("Converted to text",
            [ i \in 1..Len(values) |-> fromCharCode(baseToNumber(values[i], 2)) ])

CodecIdle ==
    /\ phase = "off"
    /\ argNum = 0
    /\ argBase = 0
    /\ argStr = << >>
    /\ encoded = NoCall
    /\ decoded = NoNumber

\* a record of the history store: {date, type, input, output}
HistoryEntry(date, type, input, output) ==
    [ date |-> date, type |-> type, input |-> input, output |-> output ]

\* an entry left in the store by an earlier run
StoredEntry == HistoryEntry("earlier", "Base 2", << "5" >>, << "1", "0", "1" >>)

\* loadHistory(): the entries of the store
loadHistory(store) == store

\* clearHistory(): the store without entries
clearHistory(store) == << >>

\* the prompts a handler leaves waiting once it passed control to target:
\* none after process.exit or when the chain ended in a catch, otherwise the
\* one inquirer.prompt of the function it called
promptsIssuedTwice(target) == IF target \in { "exited", "ended" } THEN 0 ELSE 2

promptsIssued(target) == IF target \in { "exited", "ended" } THEN 0 ELSE 1

ShellInit ==
    /\ pc = "main"
    /\ answered = "none"
    /\ selectedBase = Null
    /\ inputData = << >>
    /\ console = Silent
    /\ history \in SeqsUpTo({ StoredEntry }, MaxHistory)
    /\ converter = "universal"
    /\ pending = 1
    /\ chosenBase = Null
    /\ deleteCall = NoDelete
    /\ CodecIdle

\* main: the answer to the main menu.  'View History' runs handleHistory up
\* to its prompt: with no entries it reports that and calls main, otherwise
\* it lists the entries and asks what to do.  stringConverter runs its own
\* prompts.
mainAnswer ==
    /\ pc = "main"
    /\ answered' = "main"
    /\ inputData' = << >>
    /\ \/ /\ pc' = "stringSelectedBase"
          /\ console' = Silent
          /\ converter' = "string"
       \/ /\ pc' = "chooseBase"
          /\ console' = Silent
          /\ UNCHANGED converter
       \/ /\ IF loadHistory(history) = << >>
             THEN /\ console' = Log("No conversion history available.", << >>)
                  /\ pc' = "main"
             ELSE /\ console' = Log("Conversion History:", loadHistory(history))
                  /\ pc' = "historyAction"
          /\ UNCHANGED converter
       \/ /\ pc' = "exited"
          /\ console' = Silent
          /\ UNCHANGED converter
    /\ pending' = pending - 1 + promptsIssued(pc')
    /\ deleteCall' = NoDelete
    /\ UNCHANGED <<selectedBase, history, codecVars, chosenBase>>

\* handleHistory: the answer to 'What would you like to do?'
historyActionAnswer ==
    /\ pc = "historyAction"
    /\ answered' = "historyAction"
    /\ inputData' = << >>
    /\ \/ /\ history' = clearHistory(history)
          /\ console' = Log("History cleared successfully!", << >>)
       \/ /\ console' = Silent
          /\ UNCHANGED history
    /\ pc' = "main"
    /\ pending' = pending - 1 + promptsIssued(pc')
    /\ deleteCall' = NoDelete
    /\ UNCHANGED <<selectedBase, codecVars, converter, chosenBase>>

\* main: the answer to 'Choose the base you want to convert to:'.  A base
\* starts universalBaseConverter, whose parameter list has no base: its
\* closure variable selectedBase starts as null and startConversion prompts.
chooseBaseAnswer ==
    /\ pc = "chooseBase"
    /\ answered' = "chooseBase"
    /\ \/ \E base \in baseChoices :
             /\ selectedBase' = Null
             /\ pc' = "startConversion"
             /\ converter' = "universal"
             /\ chosenBase' = base
       \/ /\ pc' = "exited"
          /\ UNCHANGED <<selectedBase, converter, chosenBase>>
    /\ console' = Silent
    /\ inputData' = << >>
    /\ pending' = pending - 1 + promptsIssued(pc')
    /\ deleteCall' = NoDelete
    /\ UNCHANGED <<history, codecVars>>

\* startConversion: the answer to 'Select the base to convert to:'
startConversionAnswer ==
    /\ pc = "startConversion"
    /\ answered' = "startConversion"
    /\ \/ /\ pc' = "convertToString"
          /\ UNCHANGED selectedBase
       \/ \E base \in baseChoices :
             /\ selectedBase' = base
             /\ pc' = "convertToBase"
    /\ console' = Silent
    /\ inputData' = << >>
    /\ chosenBase' = Null
    /\ pending' = pending - 1 + promptsIssued(pc')
    /\ deleteCall' = NoDelete
    /\ UNCHANGED <<history, codecVars, converter>>

\* convertToBase: the answer to 'Enter numbers (space-separated) ...'
convertToBaseAnswer ==
    /\ pc = "convertToBase"
    /\ answered' = "convertToBase"
    /\ \E line \in Lines :
          /\ inputData' = line
          /\ console' = convertToBaseOutput(line, selectedBase)
    /\ pc' = "askNextAction"
    /\ pending' = pending - 1 + promptsIssued(pc')
    /\ deleteCall' = NoDelete
    /\ UNCHANGED <<selectedBase, history, codecVars, converter, chosenBase>>

\* convertToString: the answer to 'Enter base-encoded values ...'
convertToStringAnswer ==
    /\ pc = "convertToString"
    /\ answered' = "convertToString"
    /\ \E line \in ValueLines :
          /\ inputData' = line
          /\ console' = convertToStringOutput(line)
    /\ pc' = "askNextAction"
    /\ pending' = pending - 1 + promptsIssued(pc')
    /\ deleteCall' = NoDelete
    /\ UNCHANGED <<selectedBase, history, codecVars, converter, chosenBase>>

\* askNextAction with 'Convert again' calling convertToBase instead of
\* restartConversion
askNextActionSkipsMenu ==
    /\ pc = "askNextAction"
    /\ answered' = "askNextAction"
    /\ \E nextAction \in { "Convert again", "Return to main menu" } :
          pc' = IF nextAction = "Convert again" THEN "convertToBase" ELSE "main"
    /\ console' = Silent
    /\ inputData' = << >>
    /\ pending' = pending - 1 + promptsIssued(pc')
    /\ deleteCall' = NoDelete
    /\ UNCHANGED <<selectedBase, history, codecVars, converter, chosenBase>>

\* askNextAction: 'Convert again' calls restartConversion (startConversion),
\* 'Return to main menu' calls main
askNextActionAnswer ==
    /\ pc = "askNextAction"
    /\ answered' = "askNextAction"
    /\ \E nextAction \in { "Convert again", "Return to main menu" } :
          pc' = IF nextAction = "Convert again" THEN "startConversion" ELSE "main"
    /\ console' = Silent
    /\ inputData' = << >>
    /\ pending' = pending - 1 + promptsIssued(pc')
    /\ deleteCall' = NoDelete
    /\ UNCHANGED <<selectedBase, history, codecVars, converter, chosenBase>>

ShellNext ==
    \/ mainAnswer
    \/ historyActionAnswer
    \/ chooseBaseAnswer
    \/ startConversionAnswer
    \/ convertToBaseAnswer
    \/ convertToStringAnswer
    \/ askNextActionAnswer

ShellSpec == ShellInit /\ [][ShellNext]_vars

----------------------------------------------------------------------------
(* The per-base converters: hexadecimal, octodecimal, duodecimal, decimal,   *)
(* nonadecimal and senary.  The six modules have one shape: a menu of        *)
(* targets, a prompt that converts to text, a prompt that converts to a      *)
(* base, and a prompt for the next action.  They differ in their menu, in    *)
(* the pattern that validates a token and in the radix handed to parseInt.   *)

\* choices of each module without 'String', as the number each 'Base n' parses to
hexadecimalChoices == { i + 2 : i \in 0..49 }
octodecimalChoices == { i + 2 : i \in 0..49 }
duodecimalChoices == { i + 13 : i \in 0..52 }
decimalChoices == { i + 1 : i \in 0..63 } \ { 10 }
nonadecimalChoices == { i + 1 : i \in 0..63 } \ { 19 }
senaryChoices == { i + 6 : i \in 0..58 }

\* classSize: the characters 0-9A-Z the pattern's class holds, counted from
\* '0'; ignoreCase: the pattern's i flag; radix: the radix given to parseInt
hexadecimal ==
    [ name |-> "hexadecimal", classSize |-> 16, ignoreCase |-> TRUE,
      radix |-> 16, choices |-> hexadecimalChoices ]
octodecimal ==
    [ name |-> "octodecimal", classSize |-> 18, ignoreCase |-> TRUE,
      radix |-> 18, choices |-> octodecimalChoices ]
duodecimal ==
    [ name |-> "duodecimal", classSize |-> 12, ignoreCase |-> FALSE,
      radix |-> 12, choices |-> duodecimalChoices ]
decimal ==
    [ name |-> "decimal", classSize |-> 10, ignoreCase |-> FALSE,
      radix |-> 10, choices |-> decimalChoices ]
nonadecimal ==
    [ name |-> "nonadecimal", classSize |-> 19, ignoreCase |-> TRUE,
      radix |-> 19, choices |-> nonadecimalChoices ]
senary ==
    [ name |-> "senary", classSize |-> 6, ignoreCase |-> FALSE,
      radix |-> 6, choices |-> senaryChoices ]

PerBaseConverters ==
    { hexadecimal, octodecimal, duodecimal, decimal, nonadecimal, senary }

Converter == CHOOSE c \in PerBaseConverters : c.name = converter

\* the digits of Number.prototype.toString(radix), and their upper-case forms
RadixDigits ==
    << "0", "1", "2", "3", "4", "5", "6", "7", "8", "9",
       "a", "b", "c", "d", "e", "f", "g", "h", "i", "j", "k", "l", "m",
       "n", "o", "p", "q", "r", "s", "t", "u", "v", "w", "x", "y", "z" >>
UpperRadixDigits ==
    << "0", "1", "2", "3", "4", "5", "6", "7", "8", "9",
       "A", "B", "C", "D", "E", "F", "G", "H", "I", "J", "K", "L", "M",
       "N", "O", "P", "Q", "R", "S", "T", "U", "V", "W", "X", "Y", "Z" >>

\* the value of a character as a digit of parseInt, -1 when it is none
DigitValue(c) ==
    IF \E i \in 1..Len(RadixDigits) : RadixDigits[i] = c \/ UpperRadixDigits[i] = c
    THEN (CHOOSE i \in 1..Len(RadixDigits) :
              RadixDigits[i] = c \/ UpperRadixDigits[i] = c) - 1
    ELSE -1

\* the pattern with * in place of +, which the empty token matches
PatternTestStar(conv, num) ==
    \A k \in 1..Len(num) :
        \E i \in 1..conv.classSize :
            \/ UpperRadixDigits[i] = num[k]
            \/ conv.ignoreCase /\ RadixDigits[i] = num[k]

\* /^[0-9A-X]+$/.test(num), with the i flag when ignoreCase
PatternTest(conv, num) ==
    /\ num # << >>
    /\ \A k \in 1..Len(num) :
          \E i \in 1..conv.classSize :
              \/ UpperRadixDigits[i] = num[k]
              \/ conv.ignoreCase /\ RadixDigits[i] = num[k]

\* the longest prefix of digits below radix, as a number
RECURSIVE parseRadixDigits(_, _, _, _)
parseRadixDigits(str, radix, value, count) ==
    IF str # << >> /\ DigitValue(Head(str)) >= 0 /\ DigitValue(Head(str)) < radix
    THEN parseRadixDigits(Tail(str), radix,
                          MulAdd(value, radix, DigitValue(Head(str))), count + 1)
    ELSE [ value |-> value, count |-> count ]

\* parseInt(str, radix) for a radix in 2..36
parseIntRadix(str, radix) ==
    LET s0 == trimStart(str)
        signed == s0 # << >> /\ Head(s0) \in { "-", "+" }
        digits == parseRadixDigits(IF signed THEN Tail(s0) ELSE s0, radix, 0, 0)
    IN  IF digits.count = 0 THEN [ nan |-> TRUE, value |-> 0 ]
        ELSE [ nan |-> FALSE,
               value |-> IF signed /\ Head(s0) = "-" THEN -digits.value
                         ELSE digits.value ]

RECURSIVE radixDigitsOf(_, _, _)
radixDigitsOf(num, radix, result) ==
    IF num > 0
    THEN radixDigitsOf(num \div radix, radix, << RadixDigits[(num % radix) + 1] >> \o result)
    ELSE result

\* Number.prototype.toString(radix): a RangeError unless radix is in 2..36
toStringRadix(parsed, radix) ==
    IF radix < 2 \/ radix > 36 THEN Throw("RangeError")
    ELSE IF parsed.nan THEN Return(<< "N", "a", "N" >>)
    ELSE IF parsed.value = 0 THEN Return(<< "0" >>)
    ELSE IF parsed.value < 0
         THEN Return(<< "-" >> \o radixDigitsOf(-parsed.value, radix, << >>))
    ELSE Return(radixDigitsOf(parsed.value, radix, << >>))

\* the characters typed at a per-base prompt: a digit of every radix, a
\* letter digit in both cases, and the separator
PerBaseChars == { "1", "B", "b", " " }

\* the lines typed at a per-base prompt: the short lines, and longer ones with
\* two tokens, with consecutive spaces, and with a letter beyond every class
PerBaseLines ==
    SeqsUpTo(PerBaseChars, MaxTokenLen)
        \cup { << "1", " ", "B" >>, << "B", " ", "1", "b" >>,
               << "1", " ", " ", "1" >>, << "J" >>, << "1", "J" >> }

\* xToString's handler after validation: the text, as its code units
toStringOutput(conv, line) ==
    LET array == split(trim(line))
    IN  Log("Here is your text",
            [ i \in 1..Len(array) |->
                  LET parsed == parseIntRadix(array[i], conv.radix)
                  IN  IF parsed.nan THEN 0 ELSE fromCharCode(parsed.value) ])

\* xToBase's handler after validation: the first token whose toString throws
\* rejects the promise and the catch reports it
toBaseOutput(conv, line, base) ==
    LET array == split(trim(line))
        results == [ i \in 1..Len(array) |->
                         toStringRadix(parseIntRadix(array[i], conv.radix), base) ]
        thrown == { i \in 1..Len(array) : results[i].kind # "return" }
    IN  IF thrown = {}
        THEN Log("Here is your converted data",
                 join([ i \in 1..Len(array) |-> results[i].str ], << " " >>))
        ELSE LET first == CHOOSE i \in thrown : \A j \in thrown : i <= j
             IN  Error("Error during conversion", << results[first].error >>)

PerBaseInit ==
    /\ converter \in { c.name : c \in PerBaseConverters }
    /\ pc = "selectedConversionBase"
    /\ answered = "none"
    /\ selectedBase = Null
    /\ inputData = << >>
    /\ console = Silent
    /\ history = << >>
    /\ pending = 1
    /\ chosenBase = Null
    /\ deleteCall = NoDelete
    /\ CodecIdle

\* xConverter: the answer to the menu of targets.  Every choice but 'String'
\* matches /Base (\d+)/, so the branch "not available yet" is never taken
perBaseConverterAnswer ==
    /\ pc = "selectedConversionBase"
    /\ answered' = "selectedConversionBase"
    /\ \/ /\ pc' = "toString"
          /\ selectedBase' = Null
       \/ \E base \in Converter.choices :
             /\ pc' = "toBase"
             /\ selectedBase' = base
    /\ console' = Silent
    /\ inputData' = << >>
    /\ pending' = pending - 1 + promptsIssued(pc')
    /\ deleteCall' = NoDelete
    /\ UNCHANGED <<history, codecVars, converter, chosenBase>>

\* xToString: the answer to the input prompt; an invalid token prompts again
perBaseToStringAnswer ==
    /\ pc = "toString"
    /\ answered' = "toString"
    /\ \E line \in PerBaseLines :
          /\ inputData' = line
          /\ IF \A i \in 1..Len(split(trim(line))) :
                    PatternTest(Converter, split(trim(line))[i])
             THEN /\ console' = toStringOutput(Converter, line)
                  /\ pc' = "nextAction"
             ELSE /\ console' = Log("Invalid input", << >>)
                  /\ pc' = "toString"
    /\ pending' = pending - 1 + promptsIssued(pc')
    /\ deleteCall' = NoDelete
    /\ UNCHANGED <<selectedBase, history, codecVars, converter, chosenBase>>

\* xToBase(name, base): the answer to the input prompt; an invalid token
\* prompts again, a thrown error ends in the catch with no prompt left
perBaseToBaseAnswer ==
    /\ pc = "toBase"
    /\ answered' = "toBase"
    /\ \E line \in PerBaseLines :
          /\ inputData' = line
          /\ IF \A i \in 1..Len(split(trim(line))) :
                    PatternTest(Converter, split(trim(line))[i])
             THEN /\ console' = toBaseOutput(Converter, line, selectedBase)
                  /\ pc' = IF console'.stream = "error" THEN "ended" ELSE "nextAction"
             ELSE /\ console' = Log("Invalid input", << >>)
                  /\ pc' = "toBase"
    /\ pending' = pending - 1 + promptsIssued(pc')
    /\ deleteCall' = NoDelete
    /\ UNCHANGED <<selectedBase, history, codecVars, converter, chosenBase>>

\* askNextAction of a per-base module: convert again, main menu or exit
perBaseAskNextActionAnswer ==
    /\ pc = "nextAction"
    /\ answered' = "nextAction"
    /\ \E nextAction \in { "Convert again", "Go back to the Main Menu", "Exit the application" } :
          /\ pc' = CASE nextAction = "Convert again" -> "selectedConversionBase"
                     [] nextAction = "Go back to the Main Menu" -> "main"
                     [] OTHER -> "exited"
          /\ console' = IF nextAction = "Go back to the Main Menu"
                        THEN Log("Returning to the Main Menu...", << >>)
                        ELSE Silent
    /\ inputData' = << >>
    /\ selectedBase' = Null
    /\ pending' = pending - 1 + promptsIssued(pc')
    /\ deleteCall' = NoDelete
    /\ UNCHANGED <<history, codecVars, converter, chosenBase>>

PerBaseNext ==
    \/ perBaseConverterAnswer
    \/ perBaseToStringAnswer
    \/ perBaseToBaseAnswer
    \/ perBaseAskNextActionAnswer

PerBaseSpec == PerBaseInit /\ [][PerBaseNext]_vars

----------------------------------------------------------------------------
(* The compiled universal converter: its convertToBase and convertToString   *)
(* handlers, as functions of the answered line                              *)

\* the callback of numbers.map in the compiled convertToBase
distConvertNumber(num, base) ==
    LET parsed == parseInt(num)
    IN  IF parsed.nan THEN Throw("Invalid number")
        ELSE toStringRadix(parsed, base)

\* the try block of the compiled convertToBase: the first token that throws
\* ends the map and its message goes to console.error
distConvertToBaseOutput(line, base) ==
    LET numbers == split(trim(line))
        results == [ i \in 1..Len(numbers) |-> distConvertNumber(numbers[i], base) ]
        thrown == { i \in 1..Len(numbers) : results[i].kind # "return" }
    IN  IF thrown = {}
        THEN Log("Converted to Base",
                 join([ i \in 1..Len(numbers) |-> results[i].str ], << " " >>))
        ELSE LET first == CHOOSE i \in thrown : \A j \in thrown : i <= j
             IN  Error(results[first].error, numbers[first])

\* the try block of the compiled convertToString: each token read as a
\* decimal character code
distConvertToStringOutput(line) ==
    LET asciiValues == split(trim(line))
        parsed == [ i \in 1..Len(asciiValues) |-> parseInt(asciiValues[i]) ]
        thrown == { i \in 1..Len(asciiValues) : parsed[i].nan }
    IN  IF thrown = {}
        THEN Log("Converted to text",
                 [ i \in 1..Len(asciiValues) |-> fromCharCode(parsed[i].value) ])
        ELSE LET first == CHOOSE i \in thrown : \A j \in thrown : i <= j
             IN  Error("Invalid ASCII value", asciiValues[first])

----------------------------------------------------------------------------
(* The string converter: a base is selected, a string is typed, and each of  *)
(* its characters is printed in that base.  A typed string is the sequence   *)
(* of its code units, so that char.charCodeAt(0) is the element itself.      *)

\* the code units of the characters typed at stringToBase's prompt are
\* below the 256 of Math.log2(256)
CodeUnits == 256

\* the code units below 256 that String.prototype.trim removes
WhiteSpaceCodes == { 9, 10, 11, 12, 13, 32, 160 }

RECURSIVE trimStartCodes(_)
trimStartCodes(str) ==
    IF str # << >> /\ Head(str) \in WhiteSpaceCodes
    THEN trimStartCodes(Tail(str)) ELSE str

\* answers.stringInput.trim()
trimCodes(str) == Reverse(trimStartCodes(Reverse(trimStartCodes(str))))

\* Math.ceil(Math.log2(256) / Math.log2(base)): the least width w with
\* base^w >= 256; Infinity (here Huge) for base 1, whose logarithm is 0
maxWidth(base) ==
    IF base < 2 THEN Huge
    ELSE CHOOSE w \in 1..8 :
             /\ base ^ w >= CodeUnits
             /\ \A v \in 1..(w - 1) : base ^ v < CodeUnits

\* str.padStart(width, '0')
padStart(str, width) ==
    IF Len(str) >= width THEN str
    ELSE [ i \in 1..(width - Len(str)) |-> "0" ] \o str

\* the callback of map in stringToBase, applied to one character
charToBase(char, base) ==
    LET digits == toStringRadix([ nan |-> FALSE, value |-> char ], base)
    IN  IF digits.kind # "return" THEN digits
        ELSE Return(padStart(digits.str, maxWidth(base)))

\* stringToBase's handler: the first character whose toString throws rejects
\* the promise and the catch reports it; otherwise the joined tokens are logged
stringToBaseOutput(line, base) ==
    LET inputString == trimCodes(line)
        results == [ i \in 1..Len(inputString) |-> charToBase(inputString[i], base) ]
        thrown == { i \in 1..Len(inputString) : results[i].kind # "return" }
    IN  IF thrown = {}
        THEN Log("Converted to",
                 join([ i \in 1..Len(inputString) |-> results[i].str ], << " " >>))
        ELSE LET first == CHOOSE i \in thrown : \A j \in thrown : i <= j
             IN  Error("Error during conversion", << results[first].error >>)

\* the strings typed at stringToBase's prompt: the empty string, every single
\* character, and a few longer strings ("Hi", " A", "A B")
StringLines ==
    { << >> } \cup { << c >> : c \in 0..(CodeUnits - 1) }
        \cup { << 72, 105 >>, << 32, 65 >>, << 65, 32, 66 >> }

StringInit ==
    /\ converter = "string"
    /\ pc = "stringSelectedBase"
    /\ answered = "none"
    /\ selectedBase = Null
    /\ inputData = << >>
    /\ console = Silent
    /\ history = << >>
    /\ pending = 1
    /\ chosenBase = Null
    /\ deleteCall = NoDelete
    /\ CodecIdle

\* stringConverter: the answer to the menu of bases.  Every choice matches
\* /Base (\d+)/, so the branch 'Unsupported base' is never taken
stringConverterAnswer ==
    /\ pc = "stringSelectedBase"
    /\ answered' = "stringSelectedBase"
    /\ \E base \in baseChoices : selectedBase' = base
    /\ pc' = "stringInput"
    /\ console' = Silent
    /\ inputData' = << >>
    /\ pending' = pending - 1 + promptsIssued(pc')
    /\ deleteCall' = NoDelete
    /\ UNCHANGED <<history, codecVars, converter, chosenBase>>

\* stringToBase(name, base): the answer to the input prompt; a thrown error
\* ends in the catch with no prompt left
stringToBaseAnswer ==
    /\ pc = "stringInput"
    /\ answered' = "stringInput"
    /\ \E line \in StringLines :
          /\ inputData' = line
          /\ console' = stringToBaseOutput(line, selectedBase)
    /\ pc' = IF console'.stream = "error" THEN "ended" ELSE "stringNextAction"
    /\ pending' = pending - 1 + promptsIssued(pc')
    /\ deleteCall' = NoDelete
    /\ UNCHANGED <<selectedBase, history, codecVars, converter, chosenBase>>

\* askNextAction of the string converter: convert again, main menu or exit
stringAskNextActionAnswer ==
    /\ pc = "stringNextAction"
    /\ answered' = "stringNextAction"
    /\ \E nextAction \in { "Convert another string.", "Return to Main Menu.",
                           "Exit the application." } :
          /\ pc' = CASE nextAction = "Convert another string." -> "stringSelectedBase"
                     [] nextAction = "Return to Main Menu." -> "main"
                     [] OTHER -> "exited"
          /\ console' = IF nextAction = "Return to Main Menu."
                        THEN Log("Returning to the main menu...", << >>)
                        ELSE Silent
    /\ inputData' = << >>
    /\ selectedBase' = Null
    /\ pending' = pending - 1 + promptsIssued(pc')
    /\ deleteCall' = NoDelete
    /\ UNCHANGED <<history, codecVars, converter, chosenBase>>

StringNext ==
    \/ stringConverterAnswer
    \/ stringToBaseAnswer
    \/ stringAskNextActionAnswer

StringSpec == StringInit /\ [][StringNext]_vars

----------------------------------------------------------------------------
(* The history view of the compiled main: besides returning and clearing,    *)
(* it deletes one entry, chosen by its number in the displayed list.         *)

\* deleteHistoryEntry(index): the store without the entry at the 0-based
\* index; an index outside the store removes nothing
deleteHistoryEntry(store, index) ==
    IF index \in 0..(Len(store) - 1)
    THEN SubSeq(store, 1, index) \o SubSeq(store, index + 2, Len(store))
    ELSE store

\* validate with index < 0 in place of index < 1
validateFromZero(input, length) ==
    LET index == parseInt(input)
    IN  ~(index.nan \/ index.value < 0 \/ index.value > length)

\* validate of the indexToDelete prompt: TRUE when the input is accepted
validate(input, length) ==
    LET index == parseInt(input)
    IN  ~(index.nan \/ index.value < 1 \/ index.value > length)

\* the characters typed at the indexToDelete prompt
IndexChars == { "0", "1", "2", "3", "a", "-", " " }

IndexLines == SeqsUpTo(IndexChars, MaxTokenLen)

\* handleHistory was entered from the main menu with entries in the store:
\* they are listed and the action prompt is pending
HistoryInit ==
    /\ history \in SeqsUpTo({ StoredEntry }, MaxHistory) \ { << >> }
    /\ pc = "action"
    /\ answered = "none"
    /\ selectedBase = Null
    /\ inputData = << >>
    /\ console = Log("Conversion History:", loadHistory(history))
    /\ converter = "none"
    /\ pending = 1
    /\ chosenBase = Null
    /\ deleteCall = NoDelete
    /\ CodecIdle

\* handleHistory: the answer to 'What would you like to do?'
handleHistoryActionAnswer ==
    /\ pc = "action"
    /\ answered' = "action"
    /\ inputData' = << >>
    /\ \/ /\ history' = clearHistory(history)
          /\ console' = Log("History cleared successfully!", << >>)
          /\ pc' = "main"
       \/ /\ console' = Silent
          /\ pc' = "main"
          /\ UNCHANGED history
       \/ /\ console' = Silent
          /\ pc' = "indexToDelete"
          /\ UNCHANGED history
    /\ deleteCall' = NoDelete
    /\ pending' = pending - 1 + promptsIssued(pc')
    /\ UNCHANGED <<selectedBase, codecVars, converter, chosenBase>>

\* handleHistory: the answer to 'Enter the number of the entry you want to
\* delete:'.  The prompt keeps asking while validate rejects the input; an
\* accepted input deletes the entry and enters handleHistory again, which
\* with no entries left reports that and calls main
indexToDeleteAnswer ==
    /\ pc = "indexToDelete"
    /\ answered' = "indexToDelete"
    /\ \E indexToDelete \in IndexLines :
          /\ inputData' = indexToDelete
          /\ IF validate(indexToDelete, Len(loadHistory(history)))
             THEN /\ deleteCall' = DeleteCalled(parseInt(indexToDelete).value - 1)
                  /\ history' = deleteHistoryEntry(history, parseInt(indexToDelete).value - 1)
                  /\ IF loadHistory(history') = << >>
                     THEN /\ console' = Log("No conversion history available.", << >>)
                          /\ pc' = "main"
                     ELSE /\ console' = Log("Conversion History:", loadHistory(history'))
                          /\ pc' = "action"
                  /\ pending' = pending - 1 + promptsIssued(pc')
             ELSE /\ deleteCall' = NoDelete
                  /\ console' = Silent
                  /\ pc' = "indexToDelete"
                  /\ UNCHANGED <<history, pending>>
    /\ UNCHANGED <<selectedBase, codecVars, converter, chosenBase>>

HistoryNext ==
    \/ handleHistoryActionAnswer
    \/ indexToDeleteAnswer

HistorySpec == HistoryInit /\ [][HistoryNext]_vars

----------------------------------------------------------------------------
(* The application: the main menu with the converters it starts, and the    *)
(* per-base converters and the compiled history view, which return to the  *)
(* main menu through main.                                                  *)

AppInit == ShellInit \/ PerBaseInit \/ HistoryInit

AppNext == ShellNext \/ PerBaseNext \/ StringNext \/ HistoryNext

AppSpec == AppInit /\ [][AppNext]_vars

----------------------------------------------------------------------------
(* Properties of the codec, checked under Spec.  The error names of the      *)
(* specification (InvalidArgument, InvalidDigit) are read as "the call      *)
(* throws": any thrown error counts as the rejection.                       *)

\* the bases with a positional representation, and all documented bases
PositionalBases == 2..Len(BASE_CHARACTERS)
DocumentedBases == 1..Len(BASE_CHARACTERS)

InAlphabet(c) == \E d \in 1..Len(BASE_CHARACTERS) : BASE_CHARACTERS[d] = c
AlphabetIndex(c) == (CHOOSE d \in 1..Len(BASE_CHARACTERS) : BASE_CHARACTERS[d] = c) - 1

\* a digit of the given base: among the first `base` symbols of the alphabet
IsDigit(c, base) == InAlphabet(c) /\ AlphabetIndex(c) < base

RECURSIVE Pow(_, _)
Pow(b, e) == IF e = 0 THEN 1 ELSE b * Pow(b, e - 1)

\* sum of d_i * base^i over the digits of str, d_0 the last character
RECURSIVE PositionalSum(_, _)
PositionalSum(str, base) ==
    IF str = << >> THEN 0
    ELSE AlphabetIndex(Head(str)) * Pow(base, Len(str) - 1)
         + PositionalSum(Tail(str), base)

NumberToBaseCalled == phase \in { "encoded", "roundtrip" }

\* C1: for value >= 0 and base in 2..64, numberToBase returns a string and
\* baseToNumber of that string with the same base is the value again.
C1_RoundTrip ==
    (argNum >= 0 /\ argBase \in PositionalBases) =>
        /\ NumberToBaseCalled => encoded.kind = "return"
        /\ phase = "roundtrip" => decoded = ReturnNumber(argNum)

C1_Witness ==
    /\ phase = "roundtrip" /\ argNum = 255 /\ argBase = 16
    /\ encoded.str = << "F", "F" >> /\ decoded.num = 255

\* C2: for value > 0 and base in 2..64, numberToBase returns the standard
\* positional representation: digits of the base, no leading zero digit, and
\* the weighted digit sum is the value; encode(255,16) = "FF",
\* encode(255,2) = "11111111", encode(65,64) = "11".
C2_Positional ==
    (NumberToBaseCalled /\ argNum > 0 /\ argBase \in PositionalBases) =>
        /\ encoded.kind = "return"
        /\ Len(encoded.str) >= 1
        /\ \A i \in 1..Len(encoded.str) : IsDigit(encoded.str[i], argBase)
        /\ AlphabetIndex(encoded.str[1]) # 0
        /\ PositionalSum(encoded.str, argBase) = argNum
        /\ (argNum = 255 /\ argBase = 16) => encoded.str = << "F", "F" >>
        /\ (argNum = 255 /\ argBase = 2) => encoded.str = [ i \in 1..8 |-> "1" ]
        /\ (argNum = 65 /\ argBase = 64) => encoded.str = << "1", "1" >>

C2_Witness ==
    /\ phase = "encoded" /\ argNum = 255 /\ argBase = 2
    /\ encoded.str = << "1", "1", "1", "1", "1", "1", "1", "1" >>

\* the accumulator after the first k characters of str, by Horner's rule
HornerPrefix(str, base) ==
    LET acc[k \in 0..Len(str)] ==
            IF k = 0 THEN 0 ELSE acc[k - 1] * base + AlphabetIndex(str[k])
    IN  acc[Len(str)]

\* C3: for base in 2..64 and a non-empty string of digits of that base,
\* baseToNumber returns the left-to-right Horner value of the string.
C3_Horner ==
    ( /\ phase = "decoded" /\ argBase \in PositionalBases /\ argStr # << >>
      /\ \A i \in 1..Len(argStr) : IsDigit(argStr[i], argBase) ) =>
        decoded = ReturnNumber(HornerPrefix(argStr, argBase))

C3_Witness ==
    /\ phase = "decoded" /\ argBase = 16 /\ argStr = << "1", "0", "F" >>
    /\ decoded.num = 271

\* C4: for base in 2..64, numberToBase(0, base) is the one-character string of
\* the alphabet's symbol at index 0, not the empty string.
C4_ZeroSymbol ==
    (NumberToBaseCalled /\ argNum = 0 /\ argBase \in PositionalBases) =>
        encoded = Return(<< BASE_CHARACTERS[1] >>)

C4_Witness ==
    /\ phase = "encoded" /\ argNum = 0 /\ argBase = 64
    /\ encoded.kind = "return" /\ Len(encoded.str) = 1

\* C5 as claimed: numberToBase(value, 1) is the symbol at alphabet index 0
\* repeated value times (empty for value = 0).
C5_UnaryOfIndexZero ==
    (NumberToBaseCalled /\ argBase = 1 /\ argNum >= 0) =>
        /\ encoded.kind = "return"
        /\ Len(encoded.str) = argNum
        /\ \A i \in 1..Len(encoded.str) : encoded.str[i] = BASE_CHARACTERS[1]

\* C5 amended: numberToBase(value, 1) is the character "1" (the symbol at
\* alphabet index 1) repeated value times, the empty string for value = 0.
C5_UnaryOfOne ==
    (NumberToBaseCalled /\ argBase = 1 /\ argNum >= 0) =>
        /\ encoded.kind = "return"
        /\ Len(encoded.str) = argNum
        /\ \A i \in 1..Len(encoded.str) :
              encoded.str[i] = "1" /\ AlphabetIndex(encoded.str[i]) = 1
        /\ argNum = 0 => encoded.str = << >>

C5_Witness ==
    /\ phase = "encoded" /\ argBase = 1 /\ argNum = 5
    /\ encoded.str = << "1", "1", "1", "1", "1" >>

\* C6: numberToBase(value, 1) has length value with all characters identical,
\* and baseToNumber of it with base 1 returns value.
C6_UnaryRoundTrip ==
    (argBase = 1 /\ argNum >= 0) =>
        /\ NumberToBaseCalled =>
              /\ encoded.kind = "return"
              /\ Len(encoded.str) = argNum
              /\ \A i, j \in 1..Len(encoded.str) : encoded.str[i] = encoded.str[j]
        /\ phase = "roundtrip" => decoded = ReturnNumber(argNum)

C6_Witness ==
    /\ phase = "roundtrip" /\ argBase = 1 /\ argNum = 5
    /\ Len(encoded.str) = 5 /\ decoded.num = 5

\* C8: with a base outside 1..64, numberToBase and baseToNumber fail with
\* InvalidArgument instead of returning a result.
C8_BaseOutOfRangeRejected ==
    (argBase \notin DocumentedBases /\ argNum >= 0) =>
        /\ NumberToBaseCalled =>
              encoded.kind = "throw"
        /\ phase \in { "decoded", "roundtrip" } =>
              decoded.kind = "throw"

\* C9: for base in 2..64, baseToNumber of a string with a character that is
\* not a digit of the base fails with InvalidDigit; no integer is returned.
C9_InvalidDigitRejected ==
    ( /\ phase = "decoded" /\ argBase \in PositionalBases
      /\ \E i \in 1..Len(argStr) : ~IsDigit(argStr[i], argBase) ) =>
        decoded.kind = "throw"

\* C10: for base in 2..64, baseToNumber of the empty string fails with
\* InvalidArgument; it returns no integer.
C10_EmptyRejected ==
    (phase = "decoded" /\ argBase \in PositionalBases /\ argStr = << >>) =>
        decoded.kind = "throw"

\* C11: leading zero symbols do not change the decoded value: for base in
\* 2..64 and a non-empty string of digits of the base, baseToNumber of "0"
\* followed by the string equals baseToNumber of the string ("00FF" and "FF"
\* in base 16 both give 255).
C11_LeadingZeros ==
    ( /\ phase = "decoded" /\ argBase \in PositionalBases
      /\ Len(argStr) >= 2 /\ Head(argStr) = BASE_CHARACTERS[1]
      /\ \A i \in 1..Len(argStr) : IsDigit(argStr[i], argBase) ) =>
        /\ decoded = ReturnNumber(baseToNumber(Tail(argStr), argBase))
        /\ decoded.num = PositionalSum(Tail(argStr), argBase)
        /\ (argStr = << "0", "0", "F", "F" >> /\ argBase = 16) => decoded.num = 255

C11_Witness ==
    /\ phase = "decoded" /\ argBase = 16
    /\ argStr = << "0", "0", "F", "F" >> /\ decoded.num = 255

\* C12: for a fixed base in 2..64 the length of numberToBase's result is
\* non-decreasing in the value: no smaller value has a longer representation.
C12_LengthMonotone ==
    (NumberToBaseCalled /\ argNum >= 0 /\ argBase \in PositionalBases) =>
        /\ encoded.kind = "return"
        /\ \A v \in 0..argNum :
              Len(numberToBase(v, argBase).str) <= Len(encoded.str)

C12_Witness ==
    /\ phase = "encoded" /\ argBase = 16 /\ argNum = 256
    /\ Len(encoded.str) = 3 /\ Len(numberToBase(255, 16).str) = 2

UpperCaseLetters ==
    << "A", "B", "C", "D", "E", "F", "G", "H", "I", "J", "K", "L", "M",
       "N", "O", "P", "Q", "R", "S", "T", "U", "V", "W", "X", "Y", "Z" >>

LowerCaseLetters ==
    << "a", "b", "c", "d", "e", "f", "g", "h", "i", "j", "k", "l", "m",
       "n", "o", "p", "q", "r", "s", "t", "u", "v", "w", "x", "y", "z" >>

\* 64 symbols, no symbol twice, in the order 0-9, A-Z, a-z, +, /
AlphabetWellFormed ==
    /\ Len(BASE_CHARACTERS) = 64
    /\ \A i, j \in 1..Len(BASE_CHARACTERS) :
          i # j => BASE_CHARACTERS[i] # BASE_CHARACTERS[j]
    /\ BASE_CHARACTERS =
          DecimalDigits \o UpperCaseLetters \o LowerCaseLetters \o << "+", "/" >>

\* C13: the alphabet has exactly 64 symbols, none twice, in the order 0-9,
\* A-Z, a-z, +, /; the index of a symbol is its digit value in every base up
\* to 64: a value below the base is written as the symbol at that index, and
\* a one-symbol string decodes to the symbol's index.
C13_Alphabet ==
    /\ AlphabetWellFormed
    /\ (NumberToBaseCalled /\ argBase \in PositionalBases /\ argNum \in 0..(argBase - 1)) =>
          encoded = Return(<< BASE_CHARACTERS[argNum + 1] >>)
    /\ (phase = "roundtrip" /\ argBase \in PositionalBases /\ argNum \in 0..(argBase - 1)) =>
          decoded.num = argNum
    /\ (phase = "decoded" /\ argBase \in PositionalBases /\ Len(argStr) = 1
            /\ argStr[1] \in { "0", "1", "F", "G", "/" }) =>
          decoded.num = (CASE argStr[1] = "0" -> 0 [] argStr[1] = "1" -> 1
                           [] argStr[1] = "F" -> 15 [] argStr[1] = "G" -> 16
                           [] argStr[1] = "/" -> 63)

C13_Witness ==
    /\ phase = "roundtrip" /\ argBase = 64 /\ argNum = 63
    /\ encoded.str = << "/" >> /\ decoded.num = 63

\* C14: for value >= 0 and base in 2..64, numberToBase returns a non-empty
\* string whose characters are all among the first `base` alphabet symbols.
C14_DigitsOfBase ==
    (NumberToBaseCalled /\ argNum >= 0 /\ argBase \in PositionalBases) =>
        /\ encoded.kind = "return"
        /\ encoded.str # << >>
        /\ \A i \in 1..Len(encoded.str) :
              indexOf(encoded.str[i]) \in 0..(argBase - 1)

C14_Witness ==
    /\ phase = "encoded" /\ argBase = 36 /\ argNum = 71
    /\ encoded.str = << "1", "Z" >>

----------------------------------------------------------------------------
(* Properties of the shell, checked under ShellSpec *)

\* the tokens of the line convertToBase's handler was given
numbersTyped == split(trim(inputData))

IsNegativeNumber(num) == ~parseInt(num).nan /\ parseInt(num).value < 0

\* C7: numberToBase fails with InvalidArgument for every negative value, so a
\* line with a negative number typed at the number-to-base prompt yields no
\* printed converted value.
C7_NegativeRejected ==
    ( /\ answered = "convertToBase"
      /\ \E i \in 1..Len(numbersTyped) : IsNegativeNumber(numbersTyped[i]) ) =>
        /\ \A i \in 1..Len(numbersTyped) :
              IsNegativeNumber(numbersTyped[i]) =>
                  LET r == numberToBase(parseInt(numbersTyped[i]).value, selectedBase)
                  IN  r.kind = "throw"
        /\ console.stream # "log"

\* the tokens of the line convertToString's handler was given
valuesTyped == split(trim(inputData))

\* C15: in the base-to-character composition a decoded integer greater than
\* 1,114,111 is rejected: an error is reported and no character is printed
\* for it.
C15_OutOfRangeRejected ==
    ( /\ answered = "convertToString"
      /\ \E i \in 1..Len(valuesTyped) : baseToNumber(valuesTyped[i], 2) > 1114111 ) =>
        console.stream = "error"

\* a step in which a conversion handler printed a converted result
ConversionPrinted ==
    /\ pc \in { "convertToBase", "convertToString" }
    /\ console'.stream = "log"

\* C17: each step that prints a conversion result appends exactly one entry
\* to the history store, recording that conversion's input and output.
C17_HistoryAppended ==
    [][ ConversionPrinted =>
          /\ Len(history') = Len(history) + 1
          /\ SubSeq(history', 1, Len(history)) = history
          /\ history'[Len(history')].input = inputData'
          /\ history'[Len(history')].output = console'.text ]_vars

\* a valid non-negative decimal number: one or more decimal digits
IsDecimalNumber(num) ==
    num # << >> /\ \A i \in 1..Len(num) : IsDecimalDigit(num[i])

\* C18: in the number-to-base flow a token that is not a valid non-negative
\* decimal number is never converted: an error is reported for the line and
\* a further prompt is pending afterwards.
C18_InvalidNumberReported ==
    ( /\ answered = "convertToBase"
      /\ \E i \in 1..Len(numbersTyped) : ~IsDecimalNumber(numbersTyped[i]) ) =>
        /\ console.stream = "error"
        /\ pc = "askNextAction"

\* C19: every string handed to the decode step (baseToNumber with base 2 in
\* convertToString) is non-empty and consists of digits of that base.
C19_DecodeInputValidated ==
    answered = "convertToString" =>
        \A i \in 1..Len(valuesTyped) :
            /\ valuesTyped[i] # << >>
            /\ \A k \in 1..Len(valuesTyped[i]) : IsDigit(valuesTyped[i][k], 2)

\* C20: every base a menu offers as a conversion target, and so every base
\* passed to a conversion routine, is an integer in 1..64.  Checked on the
\* per-base converters: while xToBase(name, base) is prompting or has just
\* answered, its base is one of the documented bases
C20_OfferedBasesInRange ==
    (pc = "toBase" \/ answered = "toBase") => selectedBase \in DocumentedBases

\* C21: for every base offered (1..64) and every character with code point
\* 0..255, the token stringToBase prints for that character is the codec's
\* numberToBase(codePoint, base): once a string of one character was answered,
\* the console holds exactly that token on its log stream
C21_StringToBaseIsEncode ==
    (answered = "stringInput" /\ Len(trimCodes(inputData)) = 1)
        => /\ console.stream = "log"
           /\ console.text = numberToBase(trimCodes(inputData)[1], selectedBase).str

----------------------------------------------------------------------------
(* Properties of the converters' control flow, checked under AppSpec *)

\* the prompts of the three kinds of converter, by their place in the flow
SelectOperation == { "startConversion", "selectedConversionBase", "stringSelectedBase" }
AwaitInput == { "convertToBase", "convertToString", "toBase", "toString", "stringInput" }
AwaitNextAction == { "askNextAction", "nextAction", "stringNextAction" }

\* the next-action prompt of the converter an input prompt belongs to
NextActionOf(input) ==
    CASE input \in { "convertToBase", "convertToString" } -> "askNextAction"
      [] input \in { "toBase", "toString" } -> "nextAction"
      [] OTHER -> "stringNextAction"

\* the menu of targets of the converter a next-action prompt belongs to
SelectOperationOf(next) ==
    CASE next = "askNextAction" -> "startConversion"
      [] next = "nextAction" -> "selectedConversionBase"
      [] OTHER -> "stringSelectedBase"

\* ShowResult: the console holds a conversion result
ResultShown(out) ==
    /\ out.stream = "log"
    /\ out.label \in { "Converted to Base", "Converted to text", "Converted to",
                       "Here is your text", "Here is your converted data" }

\* C22: a result is shown only by the answer to an input prompt, a shown
\* result is followed by the next-action prompt of the same converter, and
\* the answer to a next-action prompt leads only to the same converter's
\* menu of targets, to the main menu or to the exit
C22_ConverterStateMachine ==
    [][ /\ ResultShown(console') =>
              /\ pc \in AwaitInput
              /\ pc' = NextActionOf(pc)
              /\ converter' = converter
        /\ pc \in AwaitNextAction =>
              \/ pc' = SelectOperationOf(pc) /\ converter' = converter
              \/ pc' \in { "main", "exited" } ]_vars

\* a converter was run again from its next-action prompt after a result
C22_Witness ==
    /\ answered \in AwaitNextAction
    /\ pc = SelectOperationOf(answered)

----------------------------------------------------------------------------
(* Properties of the per-base converters, checked under PerBaseSpec *)

PerBaseInputs == { "toString", "toBase" }

\* the characters each converter's digit pattern admits
DigitPattern(name) ==
    LET digits == { "0", "1", "2", "3", "4", "5", "6", "7", "8", "9" }
    IN  CASE name = "hexadecimal" ->
                 digits \cup { "A", "B", "C", "D", "E", "F",
                               "a", "b", "c", "d", "e", "f" }
          [] name = "octodecimal" ->
                 digits \cup { "A", "B", "C", "D", "E", "F", "G", "H",
                               "a", "b", "c", "d", "e", "f", "g", "h" }
          [] name = "nonadecimal" ->
                 digits \cup { "A", "B", "C", "D", "E", "F", "G", "H", "I",
                               "a", "b", "c", "d", "e", "f", "g", "h", "i" }
          [] name = "duodecimal" -> digits \cup { "A", "B" }
          [] name = "decimal" -> digits
          [] OTHER -> { "0", "1", "2", "3", "4", "5" }

\* the line's space-separated tokens all match the converter's pattern
PassesValidation(name, line) ==
    LET tokens == split(trim(line))
    IN  \A i \in 1..Len(tokens) :
            /\ tokens[i] # << >>
            /\ \A k \in 1..Len(tokens[i]) : tokens[i][k] \in DigitPattern(name)

\* the line's tokens, each decoded from the source base and encoded in the
\* target base by the codec
CodecTokens(line, sourceBase, targetBase) ==
    LET tokens == split(trim(line))
    IN  [ i \in 1..Len(tokens) |->
              numberToBase(baseToNumber(tokens[i], sourceBase), targetBase).str ]

\* C24: each per-base converter is the codec with a fixed source base: for
\* every line its validation accepts and every target base of its menu, the
\* printed tokens are numberToBase(baseToNumber(token, source), target)
C24_CodecInstance ==
    (answered = "toBase" /\ PassesValidation(converter, inputData))
        => /\ console.stream = "log"
           /\ console.text =
                  join(CodecTokens(inputData, Converter.radix, selectedBase), << " " >>)

\* C25: for every target base of a per-base menu and every line that passes
\* validation, the result is printed and the next-action prompt is issued;
\* the flow never ends in the catch with no prompt pending
C25_ResultThenNextAction ==
    (answered \in PerBaseInputs /\ PassesValidation(converter, inputData))
        => /\ ResultShown(console)
           /\ pc = "nextAction"
           /\ pending = 1

\* C26: when the entered line fails validation, no result is printed and no
\* next-action prompt is shown: the same input prompt is issued again with
\* the same target base; a line that passes validation leaves the prompt
C26_InvalidInputPromptsAgain ==
    [][ (pc \in PerBaseInputs) =>
          (IF PassesValidation(converter, inputData')
           THEN pc' # pc
           ELSE (/\ pc' = pc
                 /\ ~ResultShown(console')
                 /\ selectedBase' = selectedBase
                 /\ converter' = converter
                 /\ pending' = 1)) ]_vars

\* a line with an empty token was rejected and the input prompt is pending again
C26_Witness ==
    /\ answered \in PerBaseInputs
    /\ pc = answered
    /\ \E i \in 1..Len(split(trim(inputData))) : split(trim(inputData))[i] = << >>
    /\ console.label = "Invalid input"

----------------------------------------------------------------------------
(* Properties of the universal converter's use of its bases, under ShellSpec *)

\* C27: text round trip through the universal converter: for a base b in
\* 2..64 used by the 'Base b' operation and a code point c in 0..255, the
\* 'String' operation given numberToBase(c, b) prints the character with code c
C27_TextRoundTrip ==
    (answered = "convertToString" /\ selectedBase \in PositionalBases)
        => \A c \in 0..(CodeUnits - 1) :
               inputData = numberToBase(c, selectedBase).str
                   => console = Log("Converted to text", << c >>)

\* C28: the base chosen at main's 'Choose the base you want to convert to'
\* prompt is the target base of the conversion that follows
C28_ChosenBaseIsTarget ==
    [][ (pc = "startConversion" /\ chosenBase # Null /\ pc' = "convertToBase")
            => selectedBase' = chosenBase ]_vars

----------------------------------------------------------------------------
(* Properties of the history view, checked under HistorySpec *)

\* C29: deleteHistoryEntry is called only by the answer to the indexToDelete
\* prompt and only with a 0-based index i, 0 <= i < n, n being the number of
\* entries displayed; the call removes that entry and the history view is
\* entered again: with entries left the action prompt follows, with none left
\* it reports no history and returns to the main menu
C29_DeleteIndexInRange ==
    [][ deleteCall'.called =>
          (/\ pc = "indexToDelete"
           /\ deleteCall'.index \in 0..(Len(history) - 1)
           /\ Len(history') = Len(history) - 1
           /\ IF history' = << >>
              THEN pc' = "main" /\ console'.label = "No conversion history available."
              ELSE pc' = "action" /\ console'.label = "Conversion History:") ]_vars

\* the last entry was deleted and the view returned to the main menu
C29_Witness ==
    /\ deleteCall.called
    /\ history = << >>
    /\ pc = "main"

\* C30: the compiled universal converter behaves as its TypeScript source:
\* for every base 1..64 and every line, what the source's convertToBase and
\* convertToString print is what the compiled handlers print for that line
C30_DistEqualsSrc ==
    /\ answered = "convertToBase"
           => console = distConvertToBaseOutput(inputData, selectedBase)
    /\ answered = "convertToString"
           => console = distConvertToStringOutput(inputData)

====
